---- MODULE Spec2Model ----
(***************************************************************************)
(* Model of src/eval/mof_reconstruction.py: the module-level function      *)
(* array_dict_to_structure and the class MOFReconstructionEvaluator.       *)
(*                                                                         *)
(* Arrays are one-dimensional sequences of integers.  Distances are        *)
(* integers, with Inf standing for float("inf").  The external             *)
(* collaborators (pymatgen's Lattice / Structure / StructureMatcher, the   *)
(* ase renderer, joblib_map) are modelled by what the source relies on.    *)
(***************************************************************************)
EXTENDS Integers, Sequences, FiniteSets, TLC

VARIABLES
    pred_arrays_list,   \* self.pred_arrays_list
    gt_arrays_list,     \* self.gt_arrays_list
    pred_mof_list,      \* self.pred_mof_list
    gt_mof_list,        \* self.gt_mof_list
    has_rms_dists,      \* whether the attribute self.rms_dists exists yet
    rms_dists,          \* self.rms_dists
    op,                 \* the last operation called
    preceding,          \* while op is get_metrics: whether the call just before it
                        \* was clear, get_metrics or another one
    err,                \* the exception the last operation raised, or "none"
    ret,                \* the value the last operation returned
    x,                  \* argument of a direct call of array_dict_to_structure
    save,               \* its save flag
    fs_ok,              \* whether the filesystem accepts the CIF export
    called,             \* whether that call has been made
    struct              \* what that call produced

vars == <<pred_arrays_list, gt_arrays_list, pred_mof_list, gt_mof_list,
          has_rms_dists, rms_dists, op, preceding, err, ret,
          x, save, fs_ok, called, struct>>

evaluator == <<pred_arrays_list, gt_arrays_list, pred_mof_list, gt_mof_list,
               has_rms_dists, rms_dists>>

direct == <<x, save, fs_ok, called, struct>>

----------------------------------------------------------------------------
(* Bounds *)

MaxN == 2

(* Program constants *)

Inf == 1000000
NoMatchRmsd == 10
SentinelLength == 100
SentinelAngle == 90
LatticeArity == 6

----------------------------------------------------------------------------
(* Python values: a list or a scalar, as .squeeze().tolist() returns them *)

PyList(s) == [kind |-> "list", items |-> s, num |-> 0]

PyNum(n) == [kind |-> "num", items |-> << >>, num |-> n]

PyTypeError == [kind |-> "TypeError", items |-> << >>, num |-> 0]

OnesLike(a) == [i \in 1..Len(a) |-> 1]

ZerosLike(a) == [i \in 1..Len(a) |-> 0]

\* ndarray.squeeze().tolist(): a one-element array squeezes to 0-d, whose
\* tolist() is a scalar; any other 1-d array gives a list
SqueezeToList(a) == IF Len(a) = 1 THEN PyNum(a[1]) ELSE PyList(a)

\* n * v for an int n: arithmetic on a scalar, repetition on a list
PyMul(n, v) ==
    IF v.kind = "num" THEN PyNum(n * v.num)
    ELSE PyList([i \in 1..(n * Len(v.items)) |-> v.items[((i - 1) % Len(v.items)) + 1]])

\* v + w: concatenation of lists, sum of scalars, TypeError when mixed
PyAdd(v, w) ==
    IF v.kind = "list" /\ w.kind = "list" THEN PyList(v.items \o w.items)
    ELSE IF v.kind = "num" /\ w.kind = "num" THEN PyNum(v.num + w.num)
    ELSE PyTypeError

----------------------------------------------------------------------------
(* Structures *)

Raised == [raised |-> TRUE, lattice |-> << >>, species |-> << >>, coords |-> << >>,
           sample_idx |-> 0, valid |-> FALSE]

Structure(lat, sp, co, idx, v) ==
    [raised |-> FALSE, lattice |-> lat, species |-> sp, coords |-> co,
     sample_idx |-> idx, valid |-> v]

\* the library refuses non-physical cell parameters
LatticeAccepts(p) ==
    /\ \A i \in 1..3 : p[i] > 0
    /\ \A i \in 4..6 : p[i] > 0 /\ p[i] < 180

\* the library refuses a species list and a coordinate list of different sizes
StructureAccepts(sp, co) == Len(sp) = Len(co)

\* Lattice.from_parameters(*(args)): unpacking needs an iterable, and the
\* call binds exactly a, b, c, alpha, beta, gamma
LatticeFromParameters(args) ==
    IF args.kind # "list" THEN [raised |-> TRUE, params |-> << >>]
    ELSE IF Len(args.items) # LatticeArity THEN [raised |-> TRUE, params |-> << >>]
    ELSE IF ~LatticeAccepts(args.items) THEN [raised |-> TRUE, params |-> << >>]
    ELSE [raised |-> FALSE, params |-> args.items]

\* the try block
TryBuild(b, sv, fs) ==
    LET lengths == SqueezeToList(b.lengths)
        angles == SqueezeToList(b.angles)
        lat == LatticeFromParameters(PyAdd(lengths, angles))
    IN  IF lat.raised THEN Raised
        ELSE IF ~StructureAccepts(b.atom_types, b.frac_coords) THEN Raised
        ELSE IF sv /\ ~fs THEN Raised
        ELSE Structure(lat.params, b.atom_types, b.frac_coords, b.sample_idx, TRUE)

\* the except block
ExceptBuild(b) ==
    LET frac_coords == ZerosLike(b.frac_coords)
        atom_types == ZerosLike(b.atom_types)
        lengths == PyMul(SentinelLength, SqueezeToList(OnesLike(b.lengths)))
        angles == PyMul(SentinelAngle, SqueezeToList(OnesLike(b.angles)))
        lat == LatticeFromParameters(PyAdd(lengths, angles))
    IN  IF lat.raised THEN Raised
        ELSE IF ~StructureAccepts(atom_types, frac_coords) THEN Raised
        ELSE Structure(lat.params, atom_types, frac_coords, b.sample_idx, FALSE)

array_dict_to_structure(b, sv, fs) ==
    LET s == TryBuild(b, sv, fs)
    IN  IF s.raised THEN ExceptBuild(b) ELSE s

----------------------------------------------------------------------------
(* A direct call of array_dict_to_structure on one bundle *)

LengthsInputs == {<<5>>, <<5, 5>>, <<5, 5, 5>>, <<0, 5, 5>>}

AnglesInputs == {<<90>>, <<90, 90, 90>>, <<90, 90, 200>>}

AtomTypesInputs == {<<6>>, <<6, 8>>}

FracCoordsInputs == {<<0>>, <<0, 1>>}

SampleIdx == {0, 1}

BuildInputs ==
    [sample_idx : SampleIdx, frac_coords : FracCoordsInputs, atom_types : AtomTypesInputs,
     lengths : LengthsInputs, angles : AnglesInputs]

NoRet == [kind |-> "none", match_rate |-> << >>, rms_dist |-> << >>, rows |-> << >>]

EvaluatorInit ==
    /\ pred_arrays_list = << >>
    /\ gt_arrays_list = << >>
    /\ pred_mof_list = << >>
    /\ gt_mof_list = << >>
    /\ has_rms_dists = FALSE
    /\ rms_dists = << >>
    /\ op = "init"
    /\ preceding = "other"
    /\ err = "none"
    /\ ret = NoRet

InitBuild ==
    /\ EvaluatorInit
    /\ x \in BuildInputs
    /\ save \in BOOLEAN
    /\ fs_ok \in BOOLEAN
    /\ called = FALSE
    /\ struct = Raised

CallBuild ==
    /\ ~called
    /\ called' = TRUE
    /\ struct' = array_dict_to_structure(x, save, fs_ok)
    /\ UNCHANGED <<evaluator, op, preceding, err, ret, x, save, fs_ok>>

NextBuild == CallBuild

SpecBuild == InitBuild /\ [][NextBuild]_vars

----------------------------------------------------------------------------
(* MOFReconstructionEvaluator *)

\* a bundle of one atom at fractional position c in a cubic cell
Bundle(idx, c) ==
    [sample_idx |-> idx, frac_coords |-> <<c>>, atom_types |-> <<6>>,
     lengths |-> <<5, 5, 5>>, angles |-> <<90, 90, 90>>]

\* the predictions the evaluator is fed: two well-formed ones and one whose
\* lengths have the wrong arity
PredBundles ==
    {Bundle(0, 0), Bundle(1, 1), [Bundle(1, 0) EXCEPT !.lengths = <<5, 5>>]}

\* the ground truths it is fed: two well-formed ones and one with more
\* species than coordinates
GtBundles ==
    {Bundle(0, 0), Bundle(1, 2), [Bundle(0, 0) EXCEPT !.atom_types = <<6, 8>>]}

\* StructureMatcher.get_rms_dist, a deterministic function of the two
\* structures: (rms, max) for structures it matches, None for structures it
\* does not, and an exception
MatcherGetRmsDist(p, g) ==
    LET a == p.coords[1]
        b == g.coords[1]
    IN  IF a = b
        THEN [raised |-> FALSE, none |-> FALSE, value |-> <<0, 0>>]
        ELSE IF a < b
        THEN [raised |-> FALSE, none |-> TRUE, value |-> << >>]
        ELSE [raised |-> TRUE, none |-> FALSE, value |-> << >>]

GetMetricsPair(pred, gt, is_valid) ==
    IF ~is_valid THEN Inf
    ELSE LET r == MatcherGetRmsDist(pred, gt)
         IN  IF r.raised THEN Inf
             ELSE IF r.none THEN Inf
             ELSE r.value[1]

\* joblib_map(partial(array_dict_to_structure, save=save, ...), arrays): the
\* results in input order.  The CIF export is taken to succeed, so that the
\* save flag does not change what is built.
BuildAll(arrays) ==
    [i \in 1..Len(arrays) |-> array_dict_to_structure(arrays[i], FALSE, TRUE)]

\* an exception in one element propagates out of the map
JoblibMapRaises(results) == \E i \in 1..Len(results) : results[i].raised

\* the assertion left out
LengthsMatchNoAssert(p, g) == TRUE

\* the assertion that opens get_metrics
LengthsMatch(p, g) == Len(p) = Len(g)

Min(a, b) == IF a < b THEN a ELSE b

\* validity = [c1.valid and c2.valid for c1, c2 in zip(preds, gts)]
Validity(preds, gts) ==
    [i \in 1..Min(Len(preds), Len(gts)) |-> preds[i].valid /\ gts[i].valid]

\* the loop without the reset of self.rms_dists
RmsDistsNoReset(old, preds, gts, n) ==
    old \o [i \in 1..n |-> GetMetricsPair(preds[i], gts[i], Validity(preds, gts)[i])]

\* self.rms_dists = [] followed by the loop that appends one distance per
\* index below n
RmsDists(old, preds, gts, n) ==
    [i \in 1..n |-> GetMetricsPair(preds[i], gts[i], Validity(preds, gts)[i])]

IsFinite(d) == d # Inf

MatchRate(dists) == [i \in 1..Len(dists) |-> IF IsFinite(dists[i]) THEN 1 ELSE 0]

RmsDistReturned(dists) ==
    IF Len(SelectSeq(dists, IsFinite)) = 0
    THEN [i \in 1..Len(MatchRate(dists)) |-> NoMatchRmsd]
    ELSE SelectSeq(dists, IsFinite)

Call(name) ==
    /\ op' = name
    /\ preceding' = IF name = "get_metrics" /\ op \in {"clear", "get_metrics"} THEN op ELSE "other"
    /\ UNCHANGED direct

Returns(value) == err' = "none" /\ ret' = value

Raises(e) == err' = e /\ ret' = NoRet

append_pred_array(pred) ==
    /\ Len(pred_arrays_list) < MaxN
    /\ Call("append_pred_array")
    /\ pred_arrays_list' = Append(pred_arrays_list, pred)
    /\ Returns(NoRet)
    /\ UNCHANGED <<gt_arrays_list, pred_mof_list, gt_mof_list, has_rms_dists, rms_dists>>

append_gt_array(gt) ==
    /\ Len(gt_arrays_list) < MaxN
    /\ Call("append_gt_array")
    /\ gt_arrays_list' = Append(gt_arrays_list, gt)
    /\ Returns(NoRet)
    /\ UNCHANGED <<pred_arrays_list, pred_mof_list, gt_mof_list, has_rms_dists, rms_dists>>

\* clear() without the reset of self.gt_arrays_list
ClearKeepsGt ==
    /\ Call("clear")
    /\ pred_arrays_list' = << >>
    /\ pred_mof_list' = << >>
    /\ gt_mof_list' = << >>
    /\ Returns(NoRet)
    /\ UNCHANGED <<gt_arrays_list, has_rms_dists, rms_dists>>

clear ==
    /\ Call("clear")
    /\ pred_arrays_list' = << >>
    /\ gt_arrays_list' = << >>
    /\ pred_mof_list' = << >>
    /\ gt_mof_list' = << >>
    /\ Returns(NoRet)
    /\ UNCHANGED <<has_rms_dists, rms_dists>>

\* the assertion fails
GetMetricsAssertFails ==
    /\ ~LengthsMatch(pred_arrays_list, gt_arrays_list)
    /\ Call("get_metrics")
    /\ Raises("AssertionError")
    /\ UNCHANGED evaluator

\* the conversion of the predictions raises: nothing is assigned
GetMetricsPredRaises ==
    /\ LengthsMatch(pred_arrays_list, gt_arrays_list)
    /\ JoblibMapRaises(BuildAll(pred_arrays_list))
    /\ Call("get_metrics")
    /\ Raises("TypeError")
    /\ UNCHANGED evaluator

\* the conversion of the ground truths raises: self.pred_mof_list is already
\* assigned
GetMetricsGtRaises ==
    /\ LengthsMatch(pred_arrays_list, gt_arrays_list)
    /\ ~JoblibMapRaises(BuildAll(pred_arrays_list))
    /\ JoblibMapRaises(BuildAll(gt_arrays_list))
    /\ Call("get_metrics")
    /\ pred_mof_list' = BuildAll(pred_arrays_list)
    /\ Raises("TypeError")
    /\ UNCHANGED <<pred_arrays_list, gt_arrays_list, gt_mof_list, has_rms_dists, rms_dists>>

\* both conversions return; validity[i] raises IndexError past the end of the
\* shorter list, leaving the distances appended so far
GetMetricsScores ==
    /\ LengthsMatch(pred_arrays_list, gt_arrays_list)
    /\ ~JoblibMapRaises(BuildAll(pred_arrays_list))
    /\ ~JoblibMapRaises(BuildAll(gt_arrays_list))
    /\ Call("get_metrics")
    /\ pred_mof_list' = BuildAll(pred_arrays_list)
    /\ gt_mof_list' = BuildAll(gt_arrays_list)
    /\ has_rms_dists' = TRUE
    /\ LET preds == BuildAll(pred_arrays_list)
           gts == BuildAll(gt_arrays_list)
       IN  IF Len(preds) > Len(gts)
           THEN /\ rms_dists' = RmsDists(rms_dists, preds, gts, Len(gts))
                /\ Raises("IndexError")
           ELSE /\ rms_dists' = RmsDists(rms_dists, preds, gts, Len(preds))
                /\ Returns([kind |-> "metrics",
                            match_rate |-> MatchRate(rms_dists'),
                            rms_dist |-> RmsDistReturned(rms_dists'),
                            rows |-> << >>])
    /\ UNCHANGED <<pred_arrays_list, gt_arrays_list>>

get_metrics ==
    \/ GetMetricsAssertFails
    \/ GetMetricsPredRaises
    \/ GetMetricsGtRaises
    \/ GetMetricsScores

\* the match flag compared with the no-match placeholder instead of infinity
RowMatchPlaceholder(rmsd) == rmsd # NoMatchRmsd

\* match = rmsd != float("inf")
RowMatch(rmsd) == rmsd # Inf

\* the "Valid?" cell
RowValid(pred) == pred.valid

\* iterating array.squeeze() raises TypeError on a 0-d array
Iterable(a) == Len(a) # 1

\* the first statement of the loop body that raises at idx, in program order
RowError(idx) ==
    IF idx > Len(gt_mof_list) THEN "IndexError"
    ELSE IF gt_mof_list[idx].sample_idx # pred_mof_list[idx].sample_idx THEN "AssertionError"
    ELSE IF idx > Len(pred_arrays_list) THEN "IndexError"
    ELSE IF ~has_rms_dists THEN "AttributeError"
    ELSE IF idx > Len(rms_dists) THEN "IndexError"
    ELSE IF idx > Len(gt_arrays_list) THEN "IndexError"
    ELSE IF ~Iterable(gt_arrays_list[idx].lengths) \/ ~Iterable(gt_arrays_list[idx].angles)
            \/ ~Iterable(pred_arrays_list[idx].lengths) \/ ~Iterable(pred_arrays_list[idx].angles)
         THEN "TypeError"
    ELSE "none"

FailingRows == {idx \in 1..Len(pred_mof_list) : RowError(idx) # "none"}

FirstFailingRow == CHOOSE idx \in FailingRows : \A j \in FailingRows : idx <= j

\* the columns Sample idx, Num atoms, RMSD, Match?, Valid?, True 2D, Pred 2D;
\* an image cell is TRUE when the rendering succeeded, FALSE when it is None
Row(idx, true_2d, pred_2d) ==
    [sample_idx |-> gt_mof_list[idx].sample_idx,
     num_atoms |-> Len(pred_arrays_list[idx].atom_types),
     rmsd |-> rms_dists[idx],
     match |-> RowMatch(rms_dists[idx]),
     valid |-> RowValid(pred_mof_list[idx]),
     true_2d |-> true_2d,
     pred_2d |-> pred_2d]

\* a row raises: the table is not returned
GetWandbTableRaises ==
    /\ FailingRows # {}
    /\ Call("get_wandb_table")
    /\ Raises(RowError(FirstFailingRow))
    /\ UNCHANGED evaluator

\* every row is added; when the renderer fails, both image cells of a row
\* are None
GetWandbTableReturns(rendered) ==
    /\ FailingRows = {}
    /\ Call("get_wandb_table")
    /\ Returns([kind |-> "table", match_rate |-> << >>, rms_dist |-> << >>,
                rows |-> [idx \in 1..Len(pred_mof_list) |-> Row(idx, rendered, rendered)]])
    /\ UNCHANGED evaluator

get_wandb_table ==
    \/ GetWandbTableRaises
    \/ \E rendered \in BOOLEAN : GetWandbTableReturns(rendered)

Init ==
    /\ EvaluatorInit
    /\ x = Bundle(0, 0)
    /\ save = FALSE
    /\ fs_ok = TRUE
    /\ called = FALSE
    /\ struct = Raised

Next ==
    \/ \E pred \in PredBundles : append_pred_array(pred)
    \/ \E gt \in GtBundles : append_gt_array(gt)
    \/ clear
    \/ get_metrics
    \/ get_wandb_table

Spec == Init /\ [][Next]_vars

----------------------------------------------------------------------------
(* Properties *)

N == Len(pred_arrays_list)

SameLength == Len(pred_arrays_list) = Len(gt_arrays_list)

\* the structure the try block builds from a bundle, when nothing is exported
Normal(b) == TryBuild(b, FALSE, TRUE)

ValidlyConstructed(b) == ~Normal(b).raised

OracleReturns(p, g) ==
    ~MatcherGetRmsDist(p, g).raised /\ ~MatcherGetRmsDist(p, g).none

\* the distance of the accumulated pair i: infinite for a pair with a bundle
\* that fails to build, the oracle's verdict otherwise
PairDistance(i) ==
    IF ValidlyConstructed(pred_arrays_list[i]) /\ ValidlyConstructed(gt_arrays_list[i])
    THEN GetMetricsPair(Normal(pred_arrays_list[i]), Normal(gt_arrays_list[i]), TRUE)
    ELSE Inf

PairDistances == [i \in 1..N |-> PairDistance(i)]

Matched == SelectSeq(PairDistances, IsFinite)

\* C1: array_dict_to_structure is total: on every bundle whose normal
\* construction fails it returns, without raising, the sentinel structure:
\* valid = false, zeroed coordinates and species, lengths [100,100,100],
\* angles [90,90,90] and the bundle's sample_idx.
C1_BuildReturnsSentinel ==
    (called /\ TryBuild(x, save, fs_ok).raised) =>
        /\ ~struct.raised
        /\ struct.valid = FALSE
        /\ struct.coords = ZerosLike(x.frac_coords)
        /\ struct.species = ZerosLike(x.atom_types)
        /\ struct.lattice = <<100, 100, 100, 90, 90, 90>>
        /\ struct.sample_idx = x.sample_idx

\* C2: get_metrics on N predictions and N ground truths always returns a
\* match_rate of length N, in input order, whose entry i is 1 exactly when the
\* distance at i is finite, that is exactly when both structures at i are
\* valid and the oracle returned a result; it is 0 otherwise.
C2_MatchRateOfLengthN ==
    (op = "get_metrics" /\ SameLength) =>
        /\ err = "none"
        /\ ret.kind = "metrics"
        /\ Len(ret.match_rate) = N
        /\ Len(rms_dists) = N
        /\ \A i \in 1..N :
            /\ ret.match_rate[i] \in {0, 1}
            /\ (ret.match_rate[i] = 1) <=> IsFinite(rms_dists[i])
            /\ IsFinite(rms_dists[i]) <=>
                  /\ pred_mof_list[i].valid
                  /\ gt_mof_list[i].valid
                  /\ OracleReturns(pred_mof_list[i], gt_mof_list[i])

\* C3: if M < N of the N accumulated pairs match, the rms_dist get_metrics
\* returns has length exactly M and holds the matched pairs' finite distances
\* in their original relative order.  (Stated for M > 0; C4 is the case of no
\* match at all.)
C3_RmsDistOfMatchedPairs ==
    (op = "get_metrics" /\ SameLength /\ 0 < Len(Matched) /\ Len(Matched) < N) =>
        /\ err = "none"
        /\ Len(ret.rms_dist) = Len(Matched)
        /\ ret.rms_dist = Matched

\* C4: if every one of the N accumulated pairs is invalid or unmatched,
\* get_metrics returns an rms_dist of length N whose values all equal 10.0,
\* and a match_rate of N zeros.
C4_AllUnmatchedGivesPlaceholder ==
    (op = "get_metrics" /\ SameLength /\ \A i \in 1..N : ~IsFinite(PairDistance(i))) =>
        /\ err = "none"
        /\ ret.rms_dist = [i \in 1..N |-> NoMatchRmsd]
        /\ ret.match_rate = [i \in 1..N |-> 0]

\* C5: get_metrics called with lists of different lengths raises before any
\* conversion or distance computation: the structure lists and the stored
\* distances are left exactly as they were.
C5_MismatchFailsFirst ==
    [][(op' = "get_metrics" /\ ~SameLength) =>
          /\ err' = "AssertionError"
          /\ ret' = NoRet
          /\ UNCHANGED evaluator]_vars

C5_Witness ==
    /\ op = "get_metrics"
    /\ err = "AssertionError"
    /\ ~SameLength
    /\ Len(pred_mof_list) > 0
    /\ Len(rms_dists) > 0

\* C6: the only call that can abort with a propagating error is get_metrics
\* with lists of different lengths; construction failures, oracle failures,
\* rendering failures and pairs whose sample_idx differ never abort a call.
C6_OnlyMismatchAborts ==
    (err # "none") => (op = "get_metrics" /\ ~SameLength)

\* C7: clear() empties all four lists from any state, and a get_metrics call
\* that immediately follows it returns an empty match_rate and an empty
\* rms_dist rather than raising.
C7_ClearThenGetMetrics ==
    /\ (op = "clear") =>
          /\ pred_arrays_list = << >>
          /\ gt_arrays_list = << >>
          /\ pred_mof_list = << >>
          /\ gt_mof_list = << >>
    /\ (op = "get_metrics" /\ preceding = "clear") =>
          /\ err = "none"
          /\ ret.kind = "metrics"
          /\ ret.match_rate = << >>
          /\ ret.rms_dist = << >>

C7_Witness ==
    /\ op = "get_metrics"
    /\ preceding = "clear"
    /\ err = "none"
    /\ ret.match_rate = << >>
    /\ ret.rms_dist = << >>
    /\ has_rms_dists

\* C8: get_metrics called twice in a row gives the same outcome both times and
\* leaves the structure lists and the stored distances after the second call
\* equal to those after the first.
C8_GetMetricsIdempotent ==
    [][(op = "get_metrics" /\ op' = "get_metrics") =>
          /\ ret' = ret
          /\ err' = err
          /\ pred_mof_list' = pred_mof_list
          /\ gt_mof_list' = gt_mof_list
          /\ has_rms_dists' = has_rms_dists
          /\ rms_dists' = rms_dists]_vars

C8_Witness ==
    /\ op = "get_metrics"
    /\ preceding = "get_metrics"
    /\ err = "none"
    /\ \E i \in 1..Len(ret.match_rate) : ret.match_rate[i] = 1
    /\ \E i \in 1..Len(ret.match_rate) : ret.match_rate[i] = 0

C10_PositionalAlignment ==
    /\ Len(pred_mof_list) = Len(gt_mof_list)
    /\ Len(pred_mof_list) <= Len(pred_arrays_list)
    /\ Len(gt_mof_list) <= Len(gt_arrays_list)
    /\ (Len(pred_mof_list) > 0) => (has_rms_dists /\ Len(rms_dists) = Len(pred_mof_list))
    /\ \A i \in 1..Len(pred_mof_list) :
          pred_mof_list[i].sample_idx = pred_arrays_list[i].sample_idx
    /\ \A i \in 1..Len(gt_mof_list) :
          gt_mof_list[i].sample_idx = gt_arrays_list[i].sample_idx
    /\ (op = "get_wandb_table") => (err \notin {"IndexError", "AttributeError"})

====
